---- MODULE Spec2Model ----
(***************************************************************************)
(* The Pokemon cache of src/exercise/03.extra-2.js (its final variant,     *)
(* lines 193-408) together with useAsync of utils (src/unnamed/part_003).  *)
(*                                                                         *)
(* Scheduling: one task (a user event handler, or the settlement of a      *)
(* fetch with its chain of promise callbacks) runs to completion; the      *)
(* dispatches it made are applied in the order issued and the component    *)
(* re-renders; when a dependency of the PokemonSection effect changed      *)
(* identity in that render the effect is due, and it runs before the next  *)
(* task is taken.                                                          *)
(*                                                                         *)
(* Further specifications take parts of the repository on their own:       *)
(* SpecReducer (pokemonCacheReducer), SpecTeardown (the application        *)
(* unmounted with fetches in flight), SpecContext (usePokemonCache and     *)
(* useCount of src/unnamed/part_001 below any nesting of providers) and    *)
(* SpecCounter (countReducer of src/exercise/01.js).                       *)
(***************************************************************************)
EXTENDS Integers, Sequences, FiniteSets, TLC

VARIABLES
    pokemonName,   \* App's React.useState: the selection
    cache,         \* PokemonCacheProvider's React.useReducer state
    state,         \* useAsync's React.useReducer state {status, data, error}
    mounted,       \* useSafeDispatch's mounted.current
    fetches,       \* promises of fetchPokemon still in flight
    issued,        \* number of fetchPokemon calls made so far
    effectDue,     \* the PokemonSection effect is scheduled and has not run
    hist,          \* the last task, and the state it started from
    heap,          \* objects handed to and returned by the reducer under test
    rcur,          \* reference of the mapping the next reducer call receives
    rlog,          \* the reducer calls made so far, oldest first
    ancestors,     \* the elements enclosing the components that call a hook
    hcall,         \* the last hook call or interaction, and its outcome
    objs,          \* objects handed to and returned by countReducer
    ccur,          \* reference of the state the next countReducer call receives
    clog,          \* the countReducer calls made so far, oldest first
    counter        \* the Counter component: its props, the clicks made, failure

vars == <<pokemonName, cache, state, mounted, fetches, issued, effectDue, hist,
          heap, rcur, rlog, ancestors, hcall, objs, ccur, clog, counter>>

appVars == <<pokemonName, cache, state, mounted, fetches, issued, effectDue, hist>>

reducerVars == <<heap, rcur, rlog>>

contextVars == <<ancestors, hcall>>

counterVars == <<objs, ccur, clog, counter>>

notAppVars == <<reducerVars, contextVars, counterVars>>

notReducerVars == <<appVars, contextVars, counterVars>>

notContextVars == <<appVars, reducerVars, counterVars>>

notCounterVars == <<appVars, reducerVars, contextVars>>

-----------------------------------------------------------------------------
(* Bounds *)

MaxNames == 2

MaxFetches == 4

MaxCalls == 2
\* number of elements that may enclose a component calling a hook
MaxDepth == 2
\* number of increments a CountProvider's count is followed for
MaxCount == 2
\* largest step of the simple Counter
MaxStep == 2
\* number of run(promise) calls followed when useAsync is taken on its own
MaxRuns == 2

-----------------------------------------------------------------------------
(* Values *)

AllNames == <<"pikachu", "charizard", "mew", "ditto", "eevee">>

Names == {AllNames[i] : i \in 1..MaxNames}

NullName == "<null>"

EmptyName == ""

Null == [name |-> "<null>", id |-> 0]

NoError == "<null>"

Errors == {"NotFound", "NetworkError"}

Undefined == "<undefined>"

NoRef == 0

\* !pokemonName is false exactly for a non-empty string
Truthy(name) == name \notin {NullName, EmptyName}

\* the object a fetchPokemon(name) call resolves with; every call yields an
\* object of its own
PokemonData(name, id) == [name |-> name, id |-> id]

-----------------------------------------------------------------------------
(* A JavaScript object with string keys: its entries in insertion order *)

ObjectKeys(obj) == [i \in 1..Len(obj) |-> obj[i].name]

HasKey(obj, key) == \E i \in 1..Len(obj) : obj[i].name = key

\* obj[key]; Null stands for undefined
Lookup(obj, key) ==
    IF HasKey(obj, key)
    THEN obj[CHOOSE i \in 1..Len(obj) : obj[i].name = key].data
    ELSE Null

\* {...obj, [key]: data}: an existing key keeps its place, a new one goes last
SpreadWith(obj, key, data) ==
    IF HasKey(obj, key)
    THEN [i \in 1..Len(obj) |->
            IF obj[i].name = key THEN [name |-> key, data |-> data] ELSE obj[i]]
    ELSE Append(obj, [name |-> key, data |-> data])

\* delete obj[key]
DeleteKey(obj, key) ==
    LET Keep(e) == e.name # key IN SelectSeq(obj, Keep)

\* `${value}`
TemplateString(value) == IF value = Undefined THEN "undefined" ELSE value

-----------------------------------------------------------------------------
(* pokemonCacheReducer, on a heap of objects: h[ref] is the mapping passed *)
(* in, the outcome holds the heap after the call and the reference         *)
(* returned, or the error thrown.                                          *)

\* mutant: the action is keyed by the selection current at completion, not by
\* the name the fetch was issued for
AddPokemonUnderSelection(name, data) ==
    [type |-> "ADD_POKEMON", pokemonName |-> pokemonName, pokemonData |-> data]

AddPokemon(name, data) ==
    [type |-> "ADD_POKEMON", pokemonName |-> name, pokemonData |-> data]

RemovePokemon(name) ==
    [type |-> "REMOVE_POKEMON", pokemonName |-> name, pokemonData |-> Null]

Returned(h, ref) == [heap |-> h, ret |-> ref, threw |-> FALSE, message |-> ""]

Thrown(h, msg) == [heap |-> h, ret |-> NoRef, threw |-> TRUE, message |-> msg]

\* mutant: {[action.pokemonName]: action.pokemonData, ...cache}, the spread last
ReducerAddSpreadLast(h, ref, action) ==
    Returned(Append(h, IF HasKey(h[ref], action.pokemonName)
                       THEN h[ref]
                       ELSE SpreadWith(h[ref], action.pokemonName,
                                       action.pokemonData)),
             Len(h) + 1)

\* mutant: {[action.pokemonName]: action.pokemonData}, without the spread
ReducerAddWithoutSpread(h, ref, action) ==
    Returned(Append(h, SpreadWith(<<>>, action.pokemonName, action.pokemonData)),
             Len(h) + 1)

ReducerAdd(h, ref, action) ==
    Returned(Append(h, SpreadWith(h[ref], action.pokemonName, action.pokemonData)),
             Len(h) + 1)

\* mutant: delete updatedCache.pokemonName, the literal key
ReducerRemoveLiteralKey(h, ref, action) ==
    LET updatedCache == Len(h) + 1
        copied == Append(h, h[ref])
    IN  Returned([copied EXCEPT ![updatedCache] = DeleteKey(@, "pokemonName")],
                 updatedCache)

\* mutant: delete cache[pokemonName] on the mapping passed in, which is returned
ReducerRemoveInPlace(h, ref, action) ==
    Returned([h EXCEPT ![ref] = DeleteKey(@, action.pokemonName)], ref)

\* mutant: the entry is removed by its position, splice(indexOf(name), 1), and
\* position -1 of an absent name removes the last entry
ReducerRemoveByPosition(h, ref, action) ==
    LET updatedCache == Len(h) + 1
        copied == Append(h, h[ref])
        obj == h[ref]
    IN  Returned([copied EXCEPT ![updatedCache] =
                     IF HasKey(obj, action.pokemonName) \/ Len(obj) = 0
                     THEN DeleteKey(obj, action.pokemonName)
                     ELSE SubSeq(obj, 1, Len(obj) - 1)],
                 updatedCache)

ReducerRemove(h, ref, action) ==
    LET updatedCache == Len(h) + 1
        copied == Append(h, h[ref])
    IN  Returned([copied EXCEPT ![updatedCache] = DeleteKey(@, action.pokemonName)],
                 updatedCache)

\* mutant: default: return cache
ReducerDefaultReturnsCache(h, ref, action) == Returned(h, ref)

ReducerDefault(h, ref, action) ==
    Thrown(h, "Unhandled action type: " \o TemplateString(action.type))

pokemonCacheReducer(h, ref, action) ==
    CASE action.type = "ADD_POKEMON" -> ReducerAdd(h, ref, action)
      [] action.type = "REMOVE_POKEMON" -> ReducerRemove(h, ref, action)
      [] OTHER -> ReducerDefault(h, ref, action)

\* React.useReducer(pokemonCacheReducer, {}): a dispatch makes the returned
\* object the next cache; changed tells whether its identity differs
CacheDispatch(c, action) ==
    LET out == pokemonCacheReducer(<<c>>, 1, action)
    IN  [cache |-> out.heap[out.ret], changed |-> out.ret # 1]

-----------------------------------------------------------------------------
(* useAsync *)

IdleState == [status |-> "idle", data |-> Null, error |-> NoError]

\* mutant: the rejected case keeps the data of the state it is given
asyncReducerRejectedKeepsData(s, action) ==
    CASE action.type = "pending" ->
            [status |-> "pending", data |-> Null, error |-> NoError]
      [] action.type = "resolved" ->
            [status |-> "resolved", data |-> action.data, error |-> NoError]
      [] action.type = "rejected" ->
            [status |-> "rejected", data |-> s.data, error |-> action.error]
      [] action.type = "idle" ->
            [status |-> "idle", data |-> Null, error |-> NoError]
      [] OTHER ->
            [status |-> "Unhandled action type: " \o TemplateString(action.type),
             data |-> Null, error |-> NoError]

\* mutant: the idle case keeps the data and the error of the state it is given
asyncReducerIdleKeepsData(s, action) ==
    CASE action.type = "pending" ->
            [status |-> "pending", data |-> Null, error |-> NoError]
      [] action.type = "resolved" ->
            [status |-> "resolved", data |-> action.data, error |-> NoError]
      [] action.type = "rejected" ->
            [status |-> "rejected", data |-> Null, error |-> action.error]
      [] action.type = "idle" ->
            [status |-> "idle", data |-> s.data, error |-> s.error]
      [] OTHER ->
            [status |-> "Unhandled action type: " \o TemplateString(action.type),
             data |-> Null, error |-> NoError]

\* mutant: the pending case keeps the data of the state it is given
asyncReducerPendingKeepsData(s, action) ==
    CASE action.type = "pending" ->
            [status |-> "pending", data |-> s.data, error |-> NoError]
      [] action.type = "resolved" ->
            [status |-> "resolved", data |-> action.data, error |-> NoError]
      [] action.type = "rejected" ->
            [status |-> "rejected", data |-> Null, error |-> action.error]
      [] action.type = "idle" ->
            [status |-> "idle", data |-> Null, error |-> NoError]
      [] OTHER ->
            [status |-> "Unhandled action type: " \o TemplateString(action.type),
             data |-> Null, error |-> NoError]

\* mutant: the resolved case keeps the error of the state it is given
asyncReducerResolvedKeepsError(s, action) ==
    CASE action.type = "pending" ->
            [status |-> "pending", data |-> Null, error |-> NoError]
      [] action.type = "resolved" ->
            [status |-> "resolved", data |-> action.data, error |-> s.error]
      [] action.type = "rejected" ->
            [status |-> "rejected", data |-> Null, error |-> action.error]
      [] action.type = "idle" ->
            [status |-> "idle", data |-> Null, error |-> NoError]
      [] OTHER ->
            [status |-> "Unhandled action type: " \o TemplateString(action.type),
             data |-> Null, error |-> NoError]

asyncReducer(s, action) ==
    CASE action.type = "pending" ->
            [status |-> "pending", data |-> Null, error |-> NoError]
      [] action.type = "resolved" ->
            [status |-> "resolved", data |-> action.data, error |-> NoError]
      [] action.type = "rejected" ->
            [status |-> "rejected", data |-> Null, error |-> action.error]
      [] action.type = "idle" ->
            [status |-> "idle", data |-> Null, error |-> NoError]
      [] OTHER ->
            [status |-> "Unhandled action type: " \o TemplateString(action.type),
             data |-> Null, error |-> NoError]

\* mutant: (...args) => (mounted.current ? void 0 : dispatch(...args))
SafeDispatchInverted(s, isMounted, action) ==
    IF isMounted THEN s ELSE asyncReducer(s, action)

\* mutant: (...args) => dispatch(...args), without the guard
SafeDispatchUnguarded(s, isMounted, action) == asyncReducer(s, action)

\* useSafeDispatch: (...args) => (mounted.current ? dispatch(...args) : void 0)
SafeDispatch(s, isMounted, action) ==
    IF isMounted THEN asyncReducer(s, action) ELSE s

AsyncAction(type, data, error) == [type |-> type, data |-> data, error |-> error]

setData(s, isMounted, data) ==
    SafeDispatch(s, isMounted, AsyncAction("resolved", data, NoError))

setError(s, isMounted, error) ==
    SafeDispatch(s, isMounted, AsyncAction("rejected", Null, error))

reset(s, isMounted) ==
    SafeDispatch(s, isMounted, AsyncAction("idle", Null, NoError))

\* mutant: run(promise) without its dispatch of pending
runWithoutPending(s, isMounted) == s

\* the synchronous part of run(promise)
runPending(s, isMounted) ==
    SafeDispatch(s, isMounted, AsyncAction("pending", Null, NoError))

-----------------------------------------------------------------------------
(* fetchPokemon: the external fetch collaborator. A call returns a promise *)
(* that later resolves with the data of that name or rejects with an error *)

fetchPokemon(name, id) == [name |-> name, id |-> id]

-----------------------------------------------------------------------------
(* Contexts and their consumer hooks: PokemonCacheContext of                *)
(* 03.extra-2.js and CountContext of the simple Counter (part_001).         *)
(* ancestors lists the elements that enclose the calling component, the     *)
(* outermost first.                                                         *)

\* a JavaScript value as far as the hooks tell values apart: undefined, or
\* an array [first, fn] whose first element is a cache or a count; owner is
\* the position in ancestors of the provider whose state it holds, 0 for none
UndefinedValue ==
    [cache |-> <<>>, kind |-> "undefined", count |-> 0, fn |-> "<none>", owner |-> 0]

ArrayValue(c, n, fn, owner) ==
    [cache |-> c, kind |-> "array", count |-> n, fn |-> fn, owner |-> owner]

\* value == null
IsNullish(value) == value.kind \in {"undefined", "null"}

\* !value
IsFalsy(value) == IsNullish(value)

Div == [type |-> "div", cache |-> <<>>, count |-> 0]

\* <PokemonCacheProvider> whose reducer state is c
PokemonCacheProvider(c) == [type |-> "PokemonCacheProvider", cache |-> c, count |-> 0]

\* <CountProvider> whose state is n
CountProvider(n) == [type |-> "CountProvider", cache |-> <<>>, count |-> n]

\* React.createContext()
PokemonCacheContext ==
    [provider |-> "PokemonCacheProvider", defaultValue |-> UndefinedValue]

\* React.createContext([0, () => {}])
CountContext ==
    [provider |-> "CountProvider", defaultValue |-> ArrayValue(<<>>, 0, "() => {}", 0)]

\* mutant: CountProvider hands on its initial count, not its state
ProviderValueInitialCount(anc, i) ==
    IF anc[i].type = "PokemonCacheProvider"
    THEN ArrayValue(anc[i].cache, 0, "dispatch", i)
    ELSE ArrayValue(<<>>, 0, "setCount", i)

\* the value prop the provider at position i gives its Context.Provider
ProviderValue(anc, i) ==
    IF anc[i].type = "PokemonCacheProvider"
    THEN ArrayValue(anc[i].cache, 0, "dispatch", i)
    ELSE ArrayValue(<<>>, anc[i].count, "setCount", i)

\* the positions of the providers of the context among the ancestors
ProvidersOf(context, anc) ==
    {i \in 1..Len(anc) : anc[i].type = context.provider}

Nearest(positions) == CHOOSE i \in positions : \A j \in positions : j <= i

\* React.useContext(context): the value of the nearest enclosing provider, or
\* the default the context was created with
useContext(context, anc) ==
    IF ProvidersOf(context, anc) = {}
    THEN context.defaultValue
    ELSE ProviderValue(anc, Nearest(ProvidersOf(context, anc)))

HookReturned(value) == [threw |-> FALSE, message |-> "", value |-> value]

HookThrown(msg) == [threw |-> TRUE, message |-> msg, value |-> UndefinedValue]

\* mutant: usePokemonCache without its check
usePokemonCacheUnchecked(anc) ==
    HookReturned(useContext(PokemonCacheContext, anc))

usePokemonCache(anc) ==
    LET context == useContext(PokemonCacheContext, anc)
    IN  IF IsNullish(context)
        THEN HookThrown("usePokemonCacheContext must be used within a PokemonCacheProvider")
        ELSE HookReturned(context)

useCount(anc) ==
    LET context == useContext(CountContext, anc)
    IN  IF IsFalsy(context)
        THEN HookThrown("useCount must be used within the CountProvider")
        ELSE HookReturned(context)

\* the hook call under observation and its outcome; clicks counts the clicks
\* on Counter's button so far
HookCall(op, out) ==
    [value |-> out.value, threw |-> out.threw, message |-> out.message, op |-> op,
     clicks |-> hcall.clicks]

NoCall ==
    [value |-> UndefinedValue, threw |-> FALSE, message |-> "", op |-> "none",
     clicks |-> 0]

\* no hook call is under observation
NoContext ==
    /\ ancestors = <<>>
    /\ hcall = NoCall

\* no countReducer call is under observation
NoCounter ==
    /\ objs = <<>>
    /\ ccur = NoRef
    /\ clog = <<>>
    /\ counter = [clicks |-> 0, initialCount |-> 0, step |-> 1, failed |-> FALSE]

-----------------------------------------------------------------------------
(* The record kept of the last task *)

Task(op, name, arg) ==
    [op |-> op, name |-> name, arg |-> arg,
     sel |-> pokemonName, state |-> state, cache |-> cache, issued |-> issued,
     effects |-> 0, branch |-> "none"]

AfterEffect(branch) == [hist EXCEPT !.effects = @ + 1, !.branch = branch]

\* mutant: the dependency list without pokemon
DepsChangedWithoutData(cacheChanged, oldData, newData, oldName, newName) ==
    cacheChanged \/ oldName # newName

\* mutant: no dependency list, the effect runs after every render
DepsChangedAlways(cacheChanged, oldData, newData, oldName, newName) == TRUE

\* the effect's dependency list [cache, pokemon, ..., pokemonName, ...]: the
\* other entries are stable callbacks
DepsChanged(cacheChanged, oldData, newData, oldName, newName) ==
    cacheChanged \/ oldData # newData \/ oldName # newName

-----------------------------------------------------------------------------
(* The application: App, PokemonCacheProvider, PokemonSection *)

\* the application just mounted
InitApp ==
    /\ pokemonName = NullName
    /\ cache = <<>>
    /\ state = IdleState
    /\ mounted = TRUE
    /\ fetches = {}
    /\ issued = 0
    /\ effectDue = TRUE
    /\ hist = [op |-> "mount", name |-> NullName, arg |-> Null,
               sel |-> NullName, state |-> IdleState, cache |-> <<>>,
               issued |-> 0, effects |-> 0, branch |-> "none"]

\* no reducer call is under observation
NoReducer ==
    /\ heap = <<>>
    /\ rcur = NoRef
    /\ rlog = <<>>

Init ==
    /\ InitApp
    /\ NoReducer
    /\ NoContext
    /\ NoCounter

\* a task is taken only when the application is mounted and no effect is due
Ready == mounted /\ ~effectDue

\* setPokemonName(newPokemonName)
setPokemonName(op, newPokemonName) ==
    /\ pokemonName' = newPokemonName
    /\ effectDue' = DepsChanged(FALSE, state.data, state.data,
                                pokemonName, newPokemonName)
    /\ hist' = Task(op, newPokemonName, Null)
    /\ UNCHANGED <<cache, state, mounted, fetches, issued>>
    /\ UNCHANGED notAppVars

\* PokemonForm's onSubmit
handleSubmit(newPokemonName) ==
    /\ Ready
    /\ setPokemonName("submit", newPokemonName)

\* a name button of PreviousPokemon: onSelect(pokemonName)
handleSelect(newPokemonName) ==
    /\ Ready
    /\ HasKey(cache, newPokemonName)
    /\ setPokemonName("select", newPokemonName)

\* PokemonErrorBoundary's onReset, offered while PokemonInfo throws the error
onReset ==
    /\ Ready
    /\ state.status = "rejected"
    /\ setPokemonName("reset", EmptyName)

\* const [key] = Object.keys(cache)
FirstKey(c) == IF Len(ObjectKeys(c)) > 0 THEN ObjectKeys(c)[1] ELSE Undefined

\* what handleRemove leaves, from the values its closure holds
RemoveOutcome(c, sel, s, isMounted, pokemonNameToRemove) ==
    LET removed == CacheDispatch(c, RemovePokemon(pokemonNameToRemove))
        cacheKeys == ObjectKeys(c)
        Other(key) == key # pokemonNameToRemove
        filteredCacheKeys == SelectSeq(cacheKeys, Other)
        key == FirstKey(c)
    IN  IF sel # pokemonNameToRemove
        THEN [cache |-> removed.cache, changed |-> removed.changed,
              sel |-> sel, state |-> s]
        ELSE IF Len(filteredCacheKeys) > 0 /\ key # Undefined
        THEN [cache |-> removed.cache, changed |-> removed.changed,
              sel |-> key, state |-> setData(s, isMounted, Lookup(c, key))]
        ELSE [cache |-> removed.cache, changed |-> removed.changed,
              sel |-> EmptyName, state |-> reset(s, isMounted)]

\* a remove button of PreviousPokemon: onRemove(pokemonName)
handleRemove(pokemonNameToRemove) ==
    /\ Ready
    /\ HasKey(cache, pokemonNameToRemove)
    /\ LET out == RemoveOutcome(cache, pokemonName, state, mounted,
                                pokemonNameToRemove)
       IN  /\ cache' = out.cache
           /\ pokemonName' = out.sel
           /\ state' = out.state
           /\ effectDue' = DepsChanged(out.changed, state.data, out.state.data,
                                       pokemonName, out.sel)
    /\ hist' = Task("remove", pokemonNameToRemove, Null)
    /\ UNCHANGED <<mounted, fetches, issued>>
    /\ UNCHANGED notAppVars

\* mutant: the effect without its cache[pokemonName] branch
EffectBranchNoCache(c, name) ==
    IF ~Truthy(name) THEN "empty" ELSE "miss"

\* which branch the effect takes
EffectBranch(c, name) ==
    IF ~Truthy(name) THEN "empty"
    ELSE IF HasKey(c, name) THEN "hit"
    ELSE "miss"

\* if (!pokemonName) return
EffectEmpty ==
    /\ mounted /\ effectDue
    /\ EffectBranch(cache, pokemonName) = "empty"
    /\ effectDue' = FALSE
    /\ hist' = AfterEffect("empty")
    /\ UNCHANGED <<pokemonName, cache, state, mounted, fetches, issued>>
    /\ UNCHANGED notAppVars

\* else if (cache[pokemonName]) setData(cache[pokemonName])
EffectHit ==
    /\ mounted /\ effectDue
    /\ EffectBranch(cache, pokemonName) = "hit"
    /\ state' = setData(state, mounted, Lookup(cache, pokemonName))
    /\ effectDue' = DepsChanged(FALSE, state.data, state'.data,
                                pokemonName, pokemonName)
    /\ hist' = AfterEffect("hit")
    /\ UNCHANGED <<pokemonName, cache, mounted, fetches, issued>>
    /\ UNCHANGED notAppVars

\* else run(fetchPokemon(pokemonName).then(...))
EffectMiss ==
    /\ mounted /\ effectDue
    /\ EffectBranch(cache, pokemonName) = "miss"
    /\ issued < MaxFetches
    /\ issued' = issued + 1
    /\ fetches' = fetches \cup {fetchPokemon(pokemonName, issued + 1)}
    /\ state' = runPending(state, mounted)
    /\ effectDue' = DepsChanged(FALSE, state.data, state'.data,
                                pokemonName, pokemonName)
    /\ hist' = AfterEffect("miss")
    /\ UNCHANGED <<pokemonName, cache, mounted>>
    /\ UNCHANGED notAppVars

\* the fetch succeeds: the .then callback of the effect dispatches ADD_POKEMON
\* and hands the data on to run's callback, which dispatches resolved
FetchResolved(f) ==
    /\ ~effectDue
    /\ f \in fetches
    /\ LET pokemonData == PokemonData(f.name, f.id)
           added == CacheDispatch(cache, AddPokemon(f.name, pokemonData))
       IN  /\ cache' = added.cache
           /\ state' = SafeDispatch(state, mounted,
                                    AsyncAction("resolved", pokemonData, NoError))
           /\ effectDue' = (mounted /\
                              DepsChanged(added.changed, state.data, state'.data,
                                          pokemonName, pokemonName))
           /\ hist' = Task("resolved", f.name, pokemonData)
    /\ fetches' = fetches \ {f}
    /\ UNCHANGED <<pokemonName, mounted, issued>>
    /\ UNCHANGED notAppVars

\* the fetch fails: the rejection passes the effect's .then and reaches run's
\* second callback, which dispatches rejected
FetchRejected(f, error) ==
    /\ ~effectDue
    /\ f \in fetches
    /\ state' = SafeDispatch(state, mounted, AsyncAction("rejected", Null, error))
    /\ effectDue' = (mounted /\
                       DepsChanged(FALSE, state.data, state'.data,
                                   pokemonName, pokemonName))
    /\ hist' = Task("rejected", f.name, [name |-> error, id |-> 0])
    /\ fetches' = fetches \ {f}
    /\ UNCHANGED <<pokemonName, cache, mounted, issued>>
    /\ UNCHANGED notAppVars

Next ==
    \/ \E n \in Names : handleSubmit(n)
    \/ \E n \in Names : handleSelect(n)
    \/ \E n \in Names : handleRemove(n)
    \/ onReset
    \/ EffectEmpty
    \/ EffectHit
    \/ EffectMiss
    \/ \E f \in fetches : FetchResolved(f)
    \/ \E f \in fetches, e \in Errors : FetchRejected(f, e)

Spec == Init /\ [][Next]_vars

-----------------------------------------------------------------------------
(* Teardown: the application is unmounted while fetches may be in flight,   *)
(* and the callbacks useAsync returned are still called afterwards          *)

\* the cleanup of useSafeDispatch's layout effect: mounted.current = false;
\* like any task, the unmount is taken when no effect is due
Unmount ==
    /\ Ready
    /\ mounted' = FALSE
    /\ effectDue' = FALSE
    /\ hist' = Task("unmount", NullName, Null)
    /\ UNCHANGED <<pokemonName, cache, state, fetches, issued>>
    /\ UNCHANGED notAppVars

\* a call of useAsync's setData(data) by a holder of the callback
LateSetData(data) ==
    /\ ~mounted
    /\ state' = setData(state, mounted, data)
    /\ hist' = Task("setData", NullName, Null)
    /\ UNCHANGED <<pokemonName, cache, mounted, fetches, issued, effectDue>>
    /\ UNCHANGED notAppVars

\* a call of useAsync's setError(error)
LateSetError(error) ==
    /\ ~mounted
    /\ state' = setError(state, mounted, error)
    /\ hist' = Task("setError", NullName, Null)
    /\ UNCHANGED <<pokemonName, cache, mounted, fetches, issued, effectDue>>
    /\ UNCHANGED notAppVars

\* a call of useAsync's reset()
LateReset ==
    /\ ~mounted
    /\ state' = reset(state, mounted)
    /\ hist' = Task("asyncReset", NullName, Null)
    /\ UNCHANGED <<pokemonName, cache, mounted, fetches, issued, effectDue>>
    /\ UNCHANGED notAppVars

NextTeardown ==
    \/ Next
    \/ Unmount
    \/ \E n \in Names : LateSetData(PokemonData(n, 1))
    \/ \E e \in Errors : LateSetError(e)
    \/ LateReset

SpecTeardown == Init /\ [][NextTeardown]_vars

-----------------------------------------------------------------------------
(* useAsync on its own: a mounted owner calls useAsync() with no initial    *)
(* state and then run, setData, setError and reset in any order, while the  *)
(* promises handed to run settle in any order                               *)

\* run(promise), the promise being a fetch of the name
AsyncRun(name) ==
    /\ mounted
    /\ issued < MaxRuns
    /\ issued' = issued + 1
    /\ fetches' = fetches \cup {fetchPokemon(name, issued + 1)}
    /\ state' = runPending(state, mounted)
    /\ hist' = Task("run", name, Null)
    /\ UNCHANGED <<pokemonName, cache, mounted, effectDue>>
    /\ UNCHANGED notAppVars

\* the promise resolves: run's first callback dispatches resolved
AsyncResolved(f) ==
    /\ f \in fetches
    /\ fetches' = fetches \ {f}
    /\ state' = SafeDispatch(state, mounted,
                             AsyncAction("resolved", PokemonData(f.name, f.id),
                                         NoError))
    /\ hist' = Task("resolved", f.name, PokemonData(f.name, f.id))
    /\ UNCHANGED <<pokemonName, cache, mounted, issued, effectDue>>
    /\ UNCHANGED notAppVars

\* the promise rejects: run's second callback dispatches rejected
AsyncRejected(f, error) ==
    /\ f \in fetches
    /\ fetches' = fetches \ {f}
    /\ state' = SafeDispatch(state, mounted, AsyncAction("rejected", Null, error))
    /\ hist' = Task("rejected", f.name, [name |-> error, id |-> 0])
    /\ UNCHANGED <<pokemonName, cache, mounted, issued, effectDue>>
    /\ UNCHANGED notAppVars

\* setData(data)
AsyncSetData(data) ==
    /\ mounted
    /\ state' = setData(state, mounted, data)
    /\ hist' = Task("setData", data.name, data)
    /\ UNCHANGED <<pokemonName, cache, mounted, fetches, issued, effectDue>>
    /\ UNCHANGED notAppVars

\* setError(error)
AsyncSetError(error) ==
    /\ mounted
    /\ state' = setError(state, mounted, error)
    /\ hist' = Task("setError", NullName, [name |-> error, id |-> 0])
    /\ UNCHANGED <<pokemonName, cache, mounted, fetches, issued, effectDue>>
    /\ UNCHANGED notAppVars

\* reset()
AsyncReset ==
    /\ mounted
    /\ state' = reset(state, mounted)
    /\ hist' = Task("asyncReset", NullName, Null)
    /\ UNCHANGED <<pokemonName, cache, mounted, fetches, issued, effectDue>>
    /\ UNCHANGED notAppVars

\* a promise handed to run settles
AsyncSettle ==
    \/ \E f \in fetches : AsyncResolved(f)
    \/ \E f \in fetches, e \in Errors : AsyncRejected(f, e)

NextAsync ==
    \/ \E n \in Names : AsyncRun(n)
    \/ AsyncSettle
    \/ \E n \in Names : AsyncSetData(PokemonData(n, 1))
    \/ AsyncSetData(Null)
    \/ \E e \in Errors \cup {NoError} : AsyncSetError(e)
    \/ AsyncReset

SpecAsync == Init /\ [][NextAsync]_vars

\* every promise settles
FairSpecAsync == SpecAsync /\ WF_vars(AsyncSettle)

-----------------------------------------------------------------------------
(* pokemonCacheReducer on its own: every mapping over the names, then up to *)
(* MaxCalls calls, each on the mapping the previous call returned           *)

\* one data object for each name; a key may hold the data of any name
ReducerData == {PokemonData(n, 1) : n \in Names}

Entries == [name : Names, data : ReducerData]

DistinctKeys(obj) ==
    \A i, j \in 1..Len(obj) : obj[i].name = obj[j].name => i = j

Mappings ==
    {obj \in UNION {[1..k -> Entries] : k \in 0..MaxNames} : DistinctKeys(obj)}

OtherTypes == {"CLEAR_POKEMON", "add_pokemon", Undefined}

InitReducer ==
    /\ InitApp
    /\ NoContext
    /\ NoCounter
    /\ \E obj \in Mappings : heap = <<obj>>
    /\ rcur = 1
    /\ rlog = <<>>

\* one call pokemonCacheReducer(cache, action), cache being heap[rcur]
ReducerCall(action) ==
    /\ LET out == pokemonCacheReducer(heap, rcur, action)
       IN  /\ heap' = out.heap
           /\ rcur' = IF out.threw THEN rcur ELSE out.ret
           /\ rlog' = Append(rlog, [in |-> rcur, before |-> heap[rcur],
                                    action |-> action, ret |-> out.ret,
                                    threw |-> out.threw, message |-> out.message])
    /\ UNCHANGED notReducerVars

CallAdd(name, data) ==
    /\ Len(rlog) < MaxCalls
    /\ ReducerCall(AddPokemon(name, data))

CallRemove(name) ==
    /\ Len(rlog) < MaxCalls
    /\ ReducerCall(RemovePokemon(name))

\* an action of a type the reducer has no case for
CallOther(type) ==
    /\ Len(rlog) < MaxCalls
    /\ ReducerCall([type |-> type, pokemonName |-> Undefined, pokemonData |-> Null])

NextReducer ==
    \/ \E n \in Names, d \in ReducerData : CallAdd(n, d)
    \/ \E n \in Names : CallRemove(n)
    \/ \E t \in OtherTypes : CallOther(t)

SpecReducer == InitReducer /\ [][NextReducer]_vars

-----------------------------------------------------------------------------
(* The consumer hooks on their own: components below any nesting of up to  *)
(* MaxDepth providers and other elements call usePokemonCache and useCount *)

\* the caches a PokemonCacheProvider may hold: each key with data of its name
ProvidedCaches ==
    {obj \in Mappings : \A i \in 1..Len(obj) : obj[i].data.name = obj[i].name}

\* CountProvider's React.useState(0) starts its count at 0
Elements ==
    {Div} \cup {PokemonCacheProvider(c) : c \in ProvidedCaches} \cup {CountProvider(0)}

InitContext ==
    /\ InitApp
    /\ NoReducer
    /\ NoCounter
    /\ ancestors \in UNION {[1..k -> Elements] : k \in 0..MaxDepth}
    /\ hcall = NoCall

\* PokemonSection or PreviousPokemon renders: const [cache, dispatch] = usePokemonCache()
CallUsePokemonCache ==
    /\ hcall' = HookCall("usePokemonCache", usePokemonCache(ancestors))
    /\ UNCHANGED ancestors
    /\ UNCHANGED notContextVars

\* CountDisplay renders: const [count] = useCount()
CallUseCount ==
    /\ hcall' = HookCall("useCount", useCount(ancestors))
    /\ UNCHANGED ancestors
    /\ UNCHANGED notContextVars

\* Counter's button is clicked: setCount(c => c + 1), with the setCount that
\* useCount returned when Counter rendered
increment ==
    LET out == useCount(ancestors)
        owner == out.value.owner
    IN  /\ ~out.threw
        /\ hcall.clicks < MaxCount
        /\ IF out.value.fn = "setCount"
           THEN ancestors' = [ancestors EXCEPT ![owner].count = @ + 1]
           ELSE UNCHANGED ancestors
        /\ hcall' = [HookCall("increment", out) EXCEPT !.clicks = @ + 1]
        /\ UNCHANGED notContextVars

NextContext ==
    \/ CallUsePokemonCache
    \/ CallUseCount
    \/ increment

SpecContext == InitContext /\ [][NextContext]_vars

\* the calls made so far
Calls == 1..Len(rlog)

\* the mapping call i returned
Result(i) == heap[rlog[i].ret]

\* two mappings agree on a key: both lack it, or both hold the same data
AgreeOn(m1, m2, key) ==
    /\ HasKey(m1, key) <=> HasKey(m2, key)
    /\ Lookup(m1, key) = Lookup(m2, key)

\* the text ends with the word
EndsWith(text, word) ==
    /\ Len(text) >= Len(word)
    /\ SubSeq(text, Len(text) - Len(word) + 1, Len(text)) = word

-----------------------------------------------------------------------------
(* Claims about pokemonCacheReducer, under SpecReducer *)

\* C7: ADD_POKEMON with name n and data d returns a mapping m with m[n] = d
\* that agrees with the mapping passed in on every other key, whether or not
\* n was a key before.
C7_AddSetsNameKeepsOthers ==
    \A i \in Calls :
        rlog[i].action.type = "ADD_POKEMON" =>
            /\ ~rlog[i].threw
            /\ HasKey(Result(i), rlog[i].action.pokemonName)
            /\ Lookup(Result(i), rlog[i].action.pokemonName)
                 = rlog[i].action.pokemonData
            /\ \A k \in Names \ {rlog[i].action.pokemonName} :
                   AgreeOn(Result(i), rlog[i].before, k)

\* C7 witness: an ADD_POKEMON has overwritten an entry that held other data,
\* in a mapping with another key
C7_Witness ==
    \E i \in Calls :
        /\ rlog[i].action.type = "ADD_POKEMON"
        /\ HasKey(rlog[i].before, rlog[i].action.pokemonName)
        /\ Lookup(rlog[i].before, rlog[i].action.pokemonName)
             # rlog[i].action.pokemonData
        /\ Len(rlog[i].before) >= 2
        /\ Lookup(Result(i), rlog[i].action.pokemonName)
             = rlog[i].action.pokemonData

\* C8: REMOVE_POKEMON with name n returns a mapping without the key n that
\* agrees with the mapping passed in on every other key; when n was no key,
\* the result has exactly the keys and values passed in.
C8_RemoveDropsNameKeepsOthers ==
    \A i \in Calls :
        rlog[i].action.type = "REMOVE_POKEMON" =>
            /\ ~rlog[i].threw
            /\ ~HasKey(Result(i), rlog[i].action.pokemonName)
            /\ \A k \in Names \ {rlog[i].action.pokemonName} :
                   AgreeOn(Result(i), rlog[i].before, k)
            /\ ~HasKey(rlog[i].before, rlog[i].action.pokemonName)
                   => Result(i) = rlog[i].before

\* C8 witness: a key was removed from a mapping with another key, and a
\* removal of an absent key was made
C8_Witness ==
    /\ \E i \in Calls :
        /\ rlog[i].action.type = "REMOVE_POKEMON"
        /\ HasKey(rlog[i].before, rlog[i].action.pokemonName)
        /\ Len(rlog[i].before) >= 2
        /\ Len(Result(i)) = Len(rlog[i].before) - 1
    /\ \E i \in Calls :
        /\ rlog[i].action.type = "REMOVE_POKEMON"
        /\ ~HasKey(rlog[i].before, rlog[i].action.pokemonName)
        /\ Len(rlog[i].before) >= 1

\* C9: the reducer never mutates its input: after every ADD_POKEMON and
\* REMOVE_POKEMON the mapping passed in holds what it held before the call,
\* and the object returned is another object than the one passed in.
C9_InputNotMutatedResultFresh ==
    \A i \in Calls :
        rlog[i].action.type \in {"ADD_POKEMON", "REMOVE_POKEMON"} =>
            /\ heap[rlog[i].in] = rlog[i].before
            /\ rlog[i].ret # rlog[i].in
            /\ rlog[i].ret # NoRef

\* C9 witness: a key present was removed and the mapping passed in still has
\* it, and a REMOVE_POKEMON of an absent key returned another object
C9_Witness ==
    /\ \E i \in Calls :
        /\ rlog[i].action.type = "REMOVE_POKEMON"
        /\ HasKey(rlog[i].before, rlog[i].action.pokemonName)
        /\ HasKey(heap[rlog[i].in], rlog[i].action.pokemonName)
        /\ ~HasKey(Result(i), rlog[i].action.pokemonName)
    /\ \E i \in Calls :
        /\ rlog[i].action.type = "REMOVE_POKEMON"
        /\ ~HasKey(rlog[i].before, rlog[i].action.pokemonName)
        /\ rlog[i].ret # rlog[i].in

\* C10: for an action whose type is neither ADD_POKEMON nor REMOVE_POKEMON
\* the reducer throws an error whose message names the type received, and
\* the caller gets the error and no mapping.
C10_OtherTypeThrowsNamingType ==
    \A i \in Calls :
        rlog[i].action.type \notin {"ADD_POKEMON", "REMOVE_POKEMON"} =>
            /\ rlog[i].threw
            /\ rlog[i].ret = NoRef
            /\ EndsWith(rlog[i].message, TemplateString(rlog[i].action.type))

\* C10 witness: an action without a type and an action of a misspelt type
\* have both thrown
C10_Witness ==
    /\ \E i \in Calls :
        /\ rlog[i].action.type = Undefined
        /\ rlog[i].threw
        /\ rlog[i].message = "Unhandled action type: undefined"
    /\ \E i \in Calls :
        /\ rlog[i].action.type = "add_pokemon"
        /\ rlog[i].threw

-----------------------------------------------------------------------------
(* Claims about PokemonSection, under Spec *)

\* the last task was handleRemove of the name that was displayed
RemovedDisplayed == hist.op = "remove" /\ hist.name = hist.sel

\* C1: when handleRemove removes the displayed name and another name remains
\* in the cache, the selection becomes a remaining key, other than the name
\* removed, and the status is resolved with that key's cached data; when no
\* key remains the selection becomes empty and the status idle.
C1_RemoveDisplayedShowsRemaining ==
    (RemovedDisplayed /\ hist.effects = 0) =>
        IF Len(DeleteKey(hist.cache, hist.name)) > 0
        THEN /\ pokemonName # hist.name
             /\ HasKey(cache, pokemonName)
             /\ state.status = "resolved"
             /\ state.data = Lookup(cache, pokemonName)
        ELSE /\ pokemonName = EmptyName
             /\ state.status = "idle"

\* the last task set the selection to hist.name
SelectionSet == hist.op \in {"submit", "select"}

\* C2: whenever the selection is set to a name that is a key of the cache,
\* no fetch is issued for it, and once the effect has run the status is
\* resolved with the data the cache holds for that name.
C2_CacheHitResolvesWithoutFetch ==
    (SelectionSet /\ HasKey(hist.cache, hist.name)) =>
        /\ issued = hist.issued
        /\ cache = hist.cache
        /\ ~effectDue =>
              /\ state.status = "resolved"
              /\ state.data = Lookup(cache, hist.name)

\* C2 witness: a cached name other than the one displayed was selected while
\* another status was shown, and the effect has resolved with its cached data
C2_Witness ==
    /\ SelectionSet
    /\ hist.sel # hist.name
    /\ HasKey(hist.cache, hist.name)
    /\ hist.state.data # Lookup(cache, hist.name)
    /\ hist.branch = "hit"
    /\ ~effectDue
    /\ state.status = "resolved"
    /\ state.data = Lookup(cache, hist.name)

\* C3 as stated: whenever the selection is set to a name that is no key of
\* the cache, the status becomes pending and a fetch for that name is in
\* flight.
C3_Original_SetToUncachedIsPending ==
    (SelectionSet /\ ~HasKey(hist.cache, hist.name) /\ ~effectDue) =>
        /\ state.status = "pending"
        /\ \E f \in fetches : f.name = hist.name

\* C3, amended: whenever the selection changes to a name that is no key of
\* the cache, the effect sets the status to pending and issues a fetch for
\* that name; and when a fetch for a name succeeds with data D, ADD_POKEMON
\* puts D under that name in the cache and the status becomes resolved with D.
C3_CacheMissFetchesThenResolves ==
    /\ (SelectionSet /\ hist.sel # hist.name /\ ~HasKey(hist.cache, hist.name)) =>
          /\ effectDue \/ hist.effects >= 1
          /\ hist.effects >= 1 =>
                /\ state.status = "pending"
                /\ state.data = Null
                /\ \E f \in fetches : f.name = hist.name /\ f.id > hist.issued
    /\ (hist.op = "resolved" /\ hist.effects = 0) =>
          /\ cache = SpreadWith(hist.cache, hist.name, hist.arg)
          /\ Lookup(cache, hist.name) = hist.arg
          /\ state = [status |-> "resolved", data |-> hist.arg, error |-> NoError]

\* C3 witness: the fetch issued for a newly selected, uncached name has
\* succeeded while that name was selected and the status was pending
C3_Witness ==
    /\ hist.op = "resolved"
    /\ hist.effects = 0
    /\ hist.name = pokemonName
    /\ ~HasKey(hist.cache, hist.name)
    /\ hist.state.status = "pending"
    /\ state.status = "resolved"
    /\ Lookup(cache, pokemonName) = state.data

\* C4: when a fetch rejects with error E the status becomes rejected with
\* error E and data null, and the cache is left as it was.
C4_RejectedKeepsCache ==
    (hist.op = "rejected" /\ hist.effects = 0) =>
        /\ state = [status |-> "rejected", data |-> Null, error |-> hist.arg.name]
        /\ cache = hist.cache
        /\ HasKey(cache, hist.name) <=> HasKey(hist.cache, hist.name)

\* C4 witness: the fetch of the selected, uncached name was rejected while
\* the status was pending
C4_Witness ==
    /\ hist.op = "rejected"
    /\ hist.effects = 0
    /\ hist.name = pokemonName
    /\ hist.state.status = "pending"
    /\ ~HasKey(cache, hist.name)
    /\ state.status = "rejected"
    /\ state.error = "NotFound"

\* C5: after handleRemove of a name that is not the displayed one, and the
\* effects it triggers, the selection, the status, the data and the error
\* are as before the removal and no fetch was issued.
C5_RemoveOtherChangesOnlyCache ==
    (hist.op = "remove" /\ hist.name # hist.sel /\ ~effectDue) =>
        /\ pokemonName = hist.sel
        /\ state = hist.state
        /\ issued = hist.issued

\* C6: whenever the selection becomes empty, by the error boundary's reset
\* or by a removal, the status becomes idle.
C6_EmptySelectionIsIdle ==
    (hist.op \in {"reset", "remove"} /\ ~Truthy(pokemonName) /\ ~effectDue) =>
        state.status = "idle"

-----------------------------------------------------------------------------
(* Claims about two successive calls of pokemonCacheReducer, under SpecReducer *)

\* call i returned a mapping and call i + 1 received it
Chained(i) ==
    /\ i + 1 \in Calls
    /\ ~rlog[i].threw
    /\ ~rlog[i + 1].threw
    /\ rlog[i + 1].in = rlog[i].ret

\* C11: ADD_POKEMON(N, D) followed by REMOVE_POKEMON(N) yields a mapping that
\* has no key N and agrees, on every key other than N, with the mapping
\* before the add.
C11_AddThenRemoveRoundTrip ==
    \A i \in Calls :
        (/\ Chained(i)
         /\ rlog[i].action.type = "ADD_POKEMON"
         /\ rlog[i + 1].action.type = "REMOVE_POKEMON"
         /\ rlog[i + 1].action.pokemonName = rlog[i].action.pokemonName) =>
            /\ ~HasKey(Result(i + 1), rlog[i].action.pokemonName)
            /\ \A k \in Names \ {rlog[i].action.pokemonName} :
                   AgreeOn(Result(i + 1), rlog[i].before, k)

\* C11 witness: a name was added to a mapping that held another key and not
\* that name, and was then removed, which gave the mapping before the add
C11_Witness ==
    \E i \in Calls :
        /\ Chained(i)
        /\ rlog[i].action.type = "ADD_POKEMON"
        /\ rlog[i + 1].action.type = "REMOVE_POKEMON"
        /\ rlog[i + 1].action.pokemonName = rlog[i].action.pokemonName
        /\ ~HasKey(rlog[i].before, rlog[i].action.pokemonName)
        /\ Len(rlog[i].before) >= 1
        /\ HasKey(Result(i), rlog[i].action.pokemonName)
        /\ Result(i + 1) = rlog[i].before

\* C12: REMOVE_POKEMON(n) applied twice yields a mapping with the keys and
\* values that applying it once yields, also when n was no key at all.
C12_RemoveIdempotent ==
    \A i \in Calls :
        (/\ Chained(i)
         /\ rlog[i].action.type = "REMOVE_POKEMON"
         /\ rlog[i + 1].action.type = "REMOVE_POKEMON"
         /\ rlog[i + 1].action.pokemonName = rlog[i].action.pokemonName) =>
            /\ \A k \in Names : AgreeOn(Result(i + 1), Result(i), k)
            /\ Len(Result(i + 1)) = Len(Result(i))

\* C12 witness: a key present was removed twice from a mapping with another
\* key, and the other key is still there
C12_Witness ==
    \E i \in Calls :
        /\ Chained(i)
        /\ rlog[i].action.type = "REMOVE_POKEMON"
        /\ rlog[i + 1].action.type = "REMOVE_POKEMON"
        /\ rlog[i + 1].action.pokemonName = rlog[i].action.pokemonName
        /\ HasKey(rlog[i].before, rlog[i].action.pokemonName)
        /\ Len(rlog[i].before) >= 2
        /\ Len(Result(i + 1)) = Len(rlog[i].before) - 1

-----------------------------------------------------------------------------
(* Claims about the order of fetch completions, under Spec *)

\* C13: a fetch that succeeds commits its data whatever the selection is:
\* when it is the fetch of a name other than the selected one, the status
\* becomes resolved with the data of that other name.
C13_CompletionIgnoresSelection ==
    (hist.op = "resolved" /\ hist.effects = 0 /\ hist.name # pokemonName) =>
        /\ state.status = "resolved"
        /\ state.data = hist.arg
        /\ state.data.name = hist.name
        /\ state.data.name # pokemonName

\* C13 witness: two names were selected one after the other, the fetch of
\* the later one succeeded first and is cached, and the fetch of the earlier
\* one has now succeeded: the data shown is not that of the selected name
C13_Witness ==
    /\ hist.op = "resolved"
    /\ hist.effects = 0
    /\ Truthy(pokemonName)
    /\ HasKey(hist.cache, pokemonName)
    /\ Lookup(hist.cache, pokemonName).id > hist.arg.id
    /\ hist.state.status = "resolved"
    /\ hist.state.data.name = pokemonName
    /\ state.status = "resolved"
    /\ state.data.name # pokemonName

\* the same with the earlier fetch succeeding first, while the later one is
\* still in flight
C13_WitnessEarlierFirst ==
    /\ hist.op = "resolved"
    /\ hist.effects = 0
    /\ Truthy(pokemonName)
    /\ hist.state.status = "pending"
    /\ \E f \in fetches : f.name = pokemonName /\ f.id > hist.arg.id
    /\ state.status = "resolved"
    /\ state.data.name # pokemonName

-----------------------------------------------------------------------------
(* Claims about teardown, under SpecTeardown *)

\* C14: once the application is unmounted, no task changes status, data or
\* error: a fetch that settles afterwards and a later setData, setError or
\* reset all leave the state as it was before them, hence as it was at
\* teardown.
C14_NoDispatchAfterTeardown ==
    (~mounted /\ hist.op # "unmount") => state = hist.state

\* C14 witness: a fetch in flight at teardown has succeeded afterwards and
\* the status is still pending
C14_Witness ==
    /\ ~mounted
    /\ hist.op = "resolved"
    /\ hist.state.status = "pending"
    /\ state.status = "pending"
    /\ state.data = Null

\* the callbacks called after teardown, on a state they would have changed
C14_WitnessLateCalls ==
    /\ ~mounted
    /\ \/ hist.op = "setData" /\ state.status # "resolved"
       \/ hist.op = "setError" /\ state.status # "rejected"
       \/ hist.op = "asyncReset" /\ state.status # "idle"

-----------------------------------------------------------------------------
(* Claims about the life of the cache, under Spec *)

\* the entry is the data a finished fetch of its own name returned
FromSucceededFetch(entry) ==
    /\ entry.name \in Names
    /\ entry.data.name = entry.name
    /\ entry.data.id \in 1..issued
    /\ fetchPokemon(entry.name, entry.data.id) \notin fetches

\* C15: the cache is empty until a task has changed it; every entry of the
\* cache holds, under a name, the data that a successful fetch of that name
\* returned; a key is missing after a task only when the task is the user's
\* remove of that key; and a task changes the cache only to what the reducer
\* gives for ADD_POKEMON of a succeeded fetch or REMOVE_POKEMON of the remove.
C15_CacheLifecycle ==
    /\ hist.op = "mount" => cache = <<>>
    /\ \A i \in 1..Len(cache) : FromSucceededFetch(cache[i])
    /\ DistinctKeys(cache)
    /\ \A k \in Names :
          (HasKey(hist.cache, k) /\ ~HasKey(cache, k)) =>
              hist.op = "remove" /\ hist.name = k
    /\ cache # hist.cache =>
          \/ /\ hist.op = "resolved"
             /\ cache = CacheDispatch(hist.cache,
                                      AddPokemon(hist.name, hist.arg)).cache
          \/ /\ hist.op = "remove"
             /\ cache = CacheDispatch(hist.cache, RemovePokemon(hist.name)).cache

\* C15 witness: a name was fetched, cached, removed by the user, and a later
\* fetch of the same name has put it back with the data of that later fetch
C15_Witness ==
    /\ hist.op = "resolved"
    /\ ~HasKey(hist.cache, hist.name)
    /\ HasKey(cache, hist.name)
    /\ Lookup(cache, hist.name).id > 1
    /\ Len(cache) > 1

\* a user's remove has taken a key out of a cache of several entries
C15_WitnessRemove ==
    /\ hist.op = "remove"
    /\ Len(hist.cache) > 1
    /\ Len(cache) = Len(hist.cache) - 1
    /\ ~HasKey(cache, hist.name)

-----------------------------------------------------------------------------
(* countReducer of the simple Counter (src/exercise/01.js), on a heap of    *)
(* state objects as pokemonCacheReducer above. An object is the sequence of *)
(* its fields in insertion order.                                           *)

Num(n) == [type |-> "number", num |-> n, str |-> ""]

Str(text) == [type |-> "string", num |-> 0, str |-> text]

Field(key, value) == [key |-> key, value |-> value]

Has(obj, key) == \E i \in 1..Len(obj) : obj[i].key = key

\* obj[key]
Get(obj, key) == obj[CHOOSE i \in 1..Len(obj) : obj[i].key = key].value

\* target[field.key] = field.value
Assign(target, field) ==
    IF Has(target, field.key)
    THEN [i \in 1..Len(target) |->
             IF target[i].key = field.key THEN field ELSE target[i]]
    ELSE Append(target, field)

RECURSIVE Spread(_, _)
\* {...a, ...b}
Spread(a, b) ==
    IF b = <<>> THEN a ELSE Spread(Assign(a, Head(b)), Tail(b))

\* the actions a caller hands to the reducer, by their typeof
FunctionAction(fn, arg) ==
    [obj |-> <<>>, fn |-> fn, arg |-> arg, typeof |-> "function", isNull |-> FALSE]

ObjectAction(obj) ==
    [obj |-> obj, fn |-> "", arg |-> 0, typeof |-> "object", isNull |-> FALSE]

\* null: typeof null is 'object', and spreading null copies no property
NullAction ==
    [obj |-> <<>>, fn |-> "", arg |-> 0, typeof |-> "object", isNull |-> TRUE]

OtherAction(typeof) ==
    [obj |-> <<>>, fn |-> "", arg |-> 0, typeof |-> typeof, isNull |-> FALSE]

\* action(state) for the functions callers pass:
\*   addStep: currentState => ({count: currentState.count + step})
\*   nothing: () => ({})
CallAction(action, st) ==
    IF action.fn = "addStep"
    THEN <<Field("count", Num(Get(st, "count").num + action.arg))>>
    ELSE <<>>

\* mutant: return {...action(state)}, without the spread of state
countReducerFunctionWithoutState(h, ref, action) ==
    Returned(Append(h, CallAction(action, h[ref])), Len(h) + 1)

\* return {...state, ...action(state)}
countReducerFunction(h, ref, action) ==
    Returned(Append(h, Spread(h[ref], CallAction(action, h[ref]))), Len(h) + 1)

\* mutant: return Object.assign(state, action)
countReducerObjectInPlace(h, ref, action) ==
    Returned([h EXCEPT ![ref] = Spread(@, action.obj)], ref)

\* return {...state, ...action}
countReducerObject(h, ref, action) ==
    Returned(Append(h, Spread(h[ref], action.obj)), Len(h) + 1)

countReducerThrow(h, ref, action) ==
    Thrown(h, "Unsupported type for parameter 'action': '" \o action.typeof
              \o "'. Supported types are 'object' and 'function'")

countReducer(h, ref, action) ==
    IF action.typeof = "function" THEN countReducerFunction(h, ref, action)
    ELSE IF action.typeof = "object" THEN countReducerObject(h, ref, action)
    ELSE countReducerThrow(h, ref, action)

Counts == 0..MaxCount

Steps == 1..MaxStep

\* {count: initialCount}, also after a step was merged into it
InitialStates ==
    {<<Field("count", Num(c))>> : c \in Counts}
        \cup {<<Field("count", Num(c)), Field("step", Num(st))>> :
                 c \in Counts, st \in Steps}

Updaters ==
    {FunctionAction("addStep", st) : st \in Steps} \cup {FunctionAction("nothing", 0)}

\* type tags of a traditional dispatch object other than INCREMENT
OtherTags == {"DECREMENT"}

Partials ==
    {<<>>}
        \cup {<<Field("count", Num(c))>> : c \in Counts}
        \cup {<<Field("step", Num(st))>> : st \in Steps}
        \cup {<<Field("type", Str("INCREMENT")), Field("step", Num(st))>> :
                 st \in Steps}
        \cup {<<Field("type", Str(t))>> : t \in OtherTags}

OtherTypeofs == {"string", "number", "boolean", "undefined"}

\* Counter({initialCount, step}) mounted: its state is objs[1], normally
\* {count: initialCount}
InitCounter ==
    /\ InitApp
    /\ NoReducer
    /\ NoContext
    /\ \E st \in InitialStates : objs = <<st>>
    /\ ccur = 1
    /\ clog = <<>>
    /\ \E st \in Steps :
          counter = [clicks |-> 0, initialCount |-> Get(objs[1], "count").num,
                     step |-> st, failed |-> FALSE]

\* one call countReducer(state, action), state being objs[ccur]; as with
\* React.useReducer the state returned is the state of the next call
CounterCall(action) ==
    /\ LET out == countReducer(objs, ccur, action)
       IN  /\ objs' = out.heap
           /\ ccur' = IF out.threw THEN ccur ELSE out.ret
           /\ clog' = Append(clog, [in |-> ccur, before |-> objs[ccur],
                                    action |-> action, ret |-> out.ret,
                                    threw |-> out.threw, message |-> out.message])
    /\ UNCHANGED notCounterVars

CallFunction(action) ==
    /\ Len(clog) < MaxCalls
    /\ CounterCall(action)
    /\ UNCHANGED counter

CallObject(action) ==
    /\ Len(clog) < MaxCalls
    /\ CounterCall(action)
    /\ UNCHANGED counter

CallNull ==
    /\ Len(clog) < MaxCalls
    /\ CounterCall(NullAction)
    /\ UNCHANGED counter

CallOtherTypeof(action) ==
    /\ Len(clog) < MaxCalls
    /\ CounterCall(action)
    /\ UNCHANGED counter

\* the button of Counter is clicked: increment = () => setState('test'); the
\* reducer runs on the string, and what it throws fails the render of Counter
CounterIncrement ==
    /\ ~counter.failed
    /\ Len(clog) < MaxCalls
    /\ CounterCall(OtherAction("string"))
    /\ counter' = [counter EXCEPT !.clicks = @ + 1,
                                  !.failed = countReducer(objs, ccur,
                                                 OtherAction("string")).threw]

NextCounter ==
    \/ \E f \in Updaters : CallFunction(f)
    \/ \E p \in Partials : CallObject(ObjectAction(p))
    \/ CallNull
    \/ \E t \in OtherTypeofs : CallOtherTypeof(OtherAction(t))
    \/ CounterIncrement

SpecCounter == InitCounter /\ [][NextCounter]_vars

\* the countReducer calls made so far
CounterCalls == 1..Len(clog)

\* the state call i returned
CounterResult(i) == objs[clog[i].ret]

-----------------------------------------------------------------------------
(* Claims about the consumer hooks, under SpecContext *)

\* C16: usePokemonCache called with no PokemonCacheProvider among the
\* ancestors throws an error whose message names PokemonCacheProvider; it
\* never returns undefined; called inside providers it returns the array of
\* the nearest one: that provider's cache and that provider's dispatch.
C16_UsePokemonCacheThrowsOrReturnsPair ==
    hcall.op = "usePokemonCache" =>
        LET inside == {i \in 1..Len(ancestors) :
                          ancestors[i].type = "PokemonCacheProvider"}
        IN  /\ inside = {} =>
                  /\ hcall.threw
                  /\ EndsWith(hcall.message, "PokemonCacheProvider")
            /\ ~hcall.threw => hcall.value.kind # "undefined"
            /\ inside # {} =>
                  /\ ~hcall.threw
                  /\ hcall.value.kind = "array"
                  /\ hcall.value.fn = "dispatch"
                  /\ hcall.value.owner \in inside
                  /\ \A j \in inside : j <= hcall.value.owner
                  /\ hcall.value.cache = ancestors[hcall.value.owner].cache

\* C16 witness: the hook has thrown below elements none of which is a
\* PokemonCacheProvider
C16_Witness ==
    /\ hcall.op = "usePokemonCache"
    /\ hcall.threw
    /\ \E i \in 1..Len(ancestors) : ancestors[i].type = "CountProvider"

\* the hook has returned below two nested providers holding different caches
C16_WitnessNested ==
    /\ hcall.op = "usePokemonCache"
    /\ ~hcall.threw
    /\ \E i, j \in 1..Len(ancestors) :
          /\ i < j
          /\ ancestors[i].type = "PokemonCacheProvider"
          /\ ancestors[j].type = "PokemonCacheProvider"
          /\ ancestors[i].cache # ancestors[j].cache
          /\ Len(ancestors[j].cache) > 0

\* C17, as claimed: useCount called by a component with no CountProvider
\* among its ancestors throws, and does not return a count/updater pair.
\* The code violates it: CountContext is created with the default
\* [0, () => {}], which is what useContext returns there, and !context is
\* false for an array.
C17_UseCountOutsideProviderThrows ==
    (/\ hcall.op \in {"useCount", "increment"}
     /\ \A i \in 1..Len(ancestors) : ancestors[i].type # "CountProvider")
        => hcall.threw

-----------------------------------------------------------------------------
(* Claims about countReducer, under SpecCounter *)

IsIncrement(action) ==
    /\ action.typeof = "object"
    /\ Has(action.obj, "type")
    /\ Get(action.obj, "type") = Str("INCREMENT")
    /\ Has(action.obj, "step")

\* C18, as claimed: countReducer({count: c}, {type: 'INCREMENT', step: s})
\* returns a state whose count is c + s. The code violates it: the action
\* is an object, so it is merged into the state and the count stays c.
C18_IncrementAddsStep ==
    \A i \in CounterCalls :
        (IsIncrement(clog[i].action) /\ Len(clog[i].before) = 1) =>
            /\ ~clog[i].threw
            /\ Get(CounterResult(i), "count")
                 = Num(Get(clog[i].before, "count").num
                         + Get(clog[i].action.obj, "step").num)

\* C19, as claimed: for an action object whose type tag is not recognised
\* countReducer throws an error that names the tag, and does not return a
\* state. The code violates it: the object is merged and a state with the
\* count unchanged is returned.
C19_UnknownTagThrowsNamingTag ==
    \A i \in CounterCalls :
        (/\ clog[i].action.typeof = "object"
         /\ Has(clog[i].action.obj, "type")
         /\ Get(clog[i].action.obj, "type").str \in OtherTags) =>
            /\ clog[i].threw
            /\ EndsWith(clog[i].message, Get(clog[i].action.obj, "type").str)

\* the partial state call i merged: f(state) for a function, p for a mapping
Partial(i) ==
    IF clog[i].action.typeof = "function"
    THEN CallAction(clog[i].action, clog[i].before)
    ELSE clog[i].action.obj

\* C20: for a function or a plain mapping as action, countReducer returns
\* the state merged with the partial (the function's result on the current
\* state, or the mapping): each field the partial names has the partial's
\* value, every other field of the state keeps its value, the result has no
\* further field, and the state passed in is left as it was.
C20_MergeVariants ==
    \A i \in CounterCalls :
        clog[i].action.typeof \in {"function", "object"} =>
            /\ ~clog[i].threw
            /\ \A k \in {"count", "step", "type"} :
                  IF Has(Partial(i), k)
                  THEN /\ Has(CounterResult(i), k)
                       /\ Get(CounterResult(i), k) = Get(Partial(i), k)
                  ELSE IF Has(clog[i].before, k)
                  THEN /\ Has(CounterResult(i), k)
                       /\ Get(CounterResult(i), k) = Get(clog[i].before, k)
                  ELSE ~Has(CounterResult(i), k)
            /\ objs[clog[i].in] = clog[i].before
            /\ clog[i].ret # clog[i].in

\* C20 witness: a function was applied to a state that an earlier call had
\* changed, and the state has a field the function's result does not name
C20_Witness ==
    \E i \in CounterCalls :
        /\ i > 1
        /\ clog[i].action.fn = "addStep"
        /\ clog[i].before # objs[1]
        /\ Has(clog[i].before, "step")
        /\ Get(CounterResult(i), "count") # Get(clog[i].before, "count")
        /\ Get(CounterResult(i), "step") = Get(clog[i].before, "step")

\* a plain mapping was merged over a state with a field it does not name
C20_WitnessMapping ==
    \E i \in CounterCalls :
        /\ clog[i].action.typeof = "object"
        /\ Has(clog[i].action.obj, "count")
        /\ Has(clog[i].before, "step")
        /\ Get(CounterResult(i), "count") # Get(clog[i].before, "count")


StartsWith(text, word) ==
    /\ Len(text) >= Len(word)
    /\ SubSeq(text, 1, Len(word)) = word

\* the action is neither a function nor a mapping or other object
NeitherCallableNorObject(action) ==
    /\ action.typeof # "function"
    /\ action.typeof # "object" \/ action.isNull

\* C21, as claimed: for an action that is a string, a number, a boolean or
\* an absent value, countReducer throws an error naming the type received
\* and returns no state. The code violates it for the absent value null:
\* typeof null is 'object', so null is merged and a copy of the state is
\* returned.
C21_UnsupportedActionThrows ==
    \A i \in CounterCalls :
        NeitherCallableNorObject(clog[i].action) =>
            /\ clog[i].threw
            /\ clog[i].ret = NoRef
            /\ clog[i].action.isNull
                 \/ StartsWith(clog[i].message,
                               "Unsupported type for parameter 'action': '"
                                 \o clog[i].action.typeof \o "'")

\* the same without null: every action whose typeof is neither 'function'
\* nor 'object' makes countReducer throw, naming that typeof
C21_OtherTypeofThrows ==
    \A i \in CounterCalls :
        clog[i].action.typeof \notin {"function", "object"} =>
            /\ clog[i].threw
            /\ clog[i].ret = NoRef
            /\ StartsWith(clog[i].message,
                          "Unsupported type for parameter 'action': '"
                            \o clog[i].action.typeof \o "'")

\* C22, as claimed: after n increment interactions on a Counter mounted with
\* initial count c and step s, and nothing else, the count is c + n * s and
\* no interaction has failed. The code violates it: increment calls
\* setState('test'), on which countReducer throws.
C22_CountIsInitialPlusSteps ==
    (counter.clicks = Len(clog) /\ Len(objs[1]) = 1) =>
        /\ ~counter.failed
        /\ Get(objs[ccur], "count").num
             = counter.initialCount + counter.clicks * counter.step

-----------------------------------------------------------------------------
(* Claims about useAsync on its own, under SpecAsync *)

Statuses == {"idle", "pending", "resolved", "rejected"}

\* C23: the status is always idle, pending, resolved or rejected; it is idle
\* when useAsync is mounted; and a reset, whatever the status before it,
\* gives status idle with data null and error null.
C23_FourStatusesResetToIdle ==
    /\ state.status \in Statuses
    /\ hist.op = "mount" => state.status = "idle"
    /\ hist.op = "asyncReset" =>
          /\ state.status = "idle"
          /\ state.data = Null
          /\ state.error = NoError

\* C23 witness: reset was called in status rejected, with an error set
C23_Witness ==
    /\ hist.op = "asyncReset"
    /\ hist.state.status = "rejected"
    /\ hist.state.error # NoError
    /\ state.status = "idle"

\* reset called in each of the other statuses
C23_WitnessResolved ==
    hist.op = "asyncReset" /\ hist.state.status = "resolved" /\ hist.state.data # Null

C23_WitnessPending ==
    hist.op = "asyncReset" /\ hist.state.status = "pending"

C23_WitnessIdle ==
    hist.op = "asyncReset" /\ hist.state.status = "idle"


\* C29: under useAsync() with no initial state, data is other than null
\* only in status resolved, error is other than null only in status
\* rejected, and in status idle and in status pending both are null.
C29_StatusDataErrorConsistent ==
    /\ state.data # Null => state.status = "resolved"
    /\ state.error # NoError => state.status = "rejected"
    /\ state.status \in {"idle", "pending"} =>
          state.data = Null /\ state.error = NoError

\* C29 witness: run was called in status rejected with an error set, and
\* the state is pending with data and error null
C29_Witness ==
    /\ hist.op = "run"
    /\ hist.state.status = "rejected"
    /\ hist.state.error # NoError
    /\ state.status = "pending"

\* a promise resolved in status rejected: the data is set and the error gone
C29_WitnessResolvedAfterRejected ==
    /\ hist.op = "resolved"
    /\ hist.state.status = "rejected"
    /\ hist.state.error # NoError
    /\ state.data # Null
    /\ state.error = NoError

\* the promise run was last called with is still in flight
LastRunInFlight ==
    \E f \in fetches : f.id = issued

\* C28: run(promise) sets the status to pending with data and error null,
\* with the promise not yet settled; the status is pending only while the
\* promise of the last run is unsettled; a promise that settles makes the
\* state resolved with its value or rejected with its error; and, every
\* promise settling eventually, a pending status is always left.
C28_RunPendingThenSettled ==
    /\ [](hist.op = "run" =>
            /\ state = [status |-> "pending", data |-> Null, error |-> NoError]
            /\ LastRunInFlight)
    /\ [](state.status = "pending" => LastRunInFlight)
    /\ [](hist.op = "resolved" =>
            state = [status |-> "resolved", data |-> hist.arg, error |-> NoError])
    /\ [](hist.op = "rejected" =>
            state = [status |-> "rejected", data |-> Null,
                     error |-> hist.arg.name])
    /\ (state.status = "pending") ~> (state.status # "pending")

\* C28 witness: a promise has resolved while the status was still the
\* pending that its run had set
C28_Witness ==
    /\ hist.op = "resolved"
    /\ hist.state.status = "pending"
    /\ hist.arg.id = issued
    /\ state.status = "resolved"
    /\ state.data = hist.arg

-----------------------------------------------------------------------------
(* Claims about fetches and quiescence of the application, under Spec *)

\* C24, as claimed: after the user's remove of a name, the name is no key
\* of the cache and the removal causes no fetch of it: until another task,
\* no fetch of the name is issued. The code violates it: removing the
\* displayed name while it is the first key and another key is left keeps
\* the selection on the removed name, and the effect that follows fetches
\* it, which puts it back into the cache.
C24_RemovalCausesNoFetch ==
    hist.op = "remove" =>
        /\ ~HasKey(cache, hist.name)
        /\ \A f \in fetches : f.name = hist.name => f.id <= hist.issued


\* C25, as claimed: at most one fetch of a name is in flight at any time.
\* The code violates it: the effect has no record of the fetches in flight
\* and calls run(fetchPokemon(pokemonName)) whenever it runs with the
\* selected name not in the cache.
C25_OneFetchPerName ==
    \A f, g \in fetches : f.name = g.name => f = g

\* the case the claim stresses: a fetch of another name completes while the
\* fetch of the selected name is pending; the effect runs again, because
\* cache and data changed, and must not fetch the selected name once more
C25_NoRefetchWhenOtherCompletes ==
    (hist.op = "resolved" /\ hist.name # pokemonName) =>
        \A f, g \in fetches :
            (f.name = pokemonName /\ g.name = pokemonName) => f = g


\* no fetch is in flight and no effect is left to run
Quiescent == fetches = {} /\ ~effectDue

\* C26: at quiescence, when the selection is a name that is a key of the
\* cache, the status is resolved and the data displayed is the cache's
\* entry for the selection.
C26_ConsistentAtQuiescence ==
    (Quiescent /\ Truthy(pokemonName) /\ HasKey(cache, pokemonName)) =>
        /\ state.status = "resolved"
        /\ state.data = Lookup(cache, pokemonName)

\* C26 witness: quiescence was reached by the fetch of another name
\* completing last, which showed the data of that other name until the
\* effect put the selected name's entry back
C26_Witness ==
    /\ Quiescent
    /\ Truthy(pokemonName)
    /\ HasKey(cache, pokemonName)
    /\ hist.op = "resolved"
    /\ hist.name # pokemonName
    /\ hist.effects > 0
    /\ state.data = Lookup(cache, pokemonName)

\* quiescence reached after two fetches of the selected name completed, the
\* one issued first completing last
C26_WitnessOutOfOrder ==
    /\ Quiescent
    /\ hist.op = "resolved"
    /\ hist.name = pokemonName
    /\ HasKey(hist.cache, pokemonName)
    /\ Lookup(hist.cache, pokemonName).id > hist.arg.id


\* a step of the effect or of a fetch settling, none of the user
SettlingStep ==
    \/ EffectEmpty
    \/ EffectHit
    \/ EffectMiss
    \/ \E f \in fetches, e \in Errors : FetchRejected(f, e)
    \/ \E f \in fetches : FetchResolved(f)

\* the effect is due to fetch and the model's budget of fetches is used up
OutOfFetches ==
    /\ effectDue
    /\ EffectBranch(cache, pokemonName) = "miss"
    /\ issued >= MaxFetches

\* the steps the effect still takes by itself when it is due, counting the
\* fetches it issues with the weight of a fetch of the selected name
EffectWork ==
    IF ~effectDue THEN 0
    ELSE IF EffectBranch(cache, pokemonName) = "empty" THEN 1
    ELSE IF EffectBranch(cache, pokemonName) = "hit"
    THEN (IF state.data = Lookup(cache, pokemonName) THEN 1 ELSE 2)
    ELSE (IF state.data = Null THEN 4 ELSE 8)

\* an upper bound of the number of steps of the effect and of settling
\* fetches still to come if the user does nothing more: a fetch of the
\* selected name settles and lets the effect run at most twice; a fetch of
\* another name settles and lets the effect fetch the selected name twice
Work ==
    3 * Cardinality({f \in fetches : f.name = pokemonName})
      + 9 * Cardinality({f \in fetches : f.name # pokemonName})
      + EffectWork

\* C27: as long as the user does nothing, every step of the effect (one
\* more run after the last task) and every settlement of a fetch lowers
\* Work, a natural number, so only finitely many fetches and dispatches
\* follow the user's last interaction; and in every state that has a fetch
\* in flight or an effect left to run, the effect or a settlement can take
\* a step (unless the model's budget of fetches is used up).
C27_QuiescenceReached ==
    /\ [][(hist'.effects > 0 \/ hist'.op \in {"resolved", "rejected"})
            => Work' < Work]_vars
    /\ [](Quiescent \/ OutOfFetches \/ ENABLED SettlingStep)

\* the steps C27 speaks of are those of SettlingStep, none of the user's
SettledIsSettlingStep ==
    [][SettlingStep
         <=> (hist'.effects > 0 \/ hist'.op \in {"resolved", "rejected"})]_vars

\* C27 witness: a fetch of another name completed while the selected name's
\* fetch was pending, the effect fetched the selected name again, all
\* fetches have settled and nothing is left to run, with fetches to spare
C27_Witness ==
    /\ Quiescent
    /\ hist.op \in {"resolved", "rejected"}
    /\ issued < MaxFetches
    /\ \E i \in 1..Len(cache) :
          cache[i].name = pokemonName /\ cache[i].data.id > 2

\* the effect's longest chain: two runs after one task, both fetching
C27_WitnessTwoFetches ==
    hist.effects = 2 /\ issued = hist.issued + 2

\* the effect runs when it is due, and every fetch settles
FairSpec ==
    /\ Spec
    /\ WF_vars(EffectEmpty \/ EffectHit \/ EffectMiss)
    /\ WF_vars(\/ \E f \in fetches : FetchResolved(f)
               \/ \E f \in fetches, e \in Errors : FetchRejected(f, e))

\* the same as a property of behaviours, under FairSpec: once only the
\* effect and settling fetches take steps, and as long as the budget of
\* fetches lasts, quiescence is reached and kept
QuiescenceWhenUserStops ==
    (<>[][SettlingStep]_vars /\ []~OutOfFetches) => <>[]Quiescent

-----------------------------------------------------------------------------
(* The count shared through CountProvider *)

\* the consumers are inside a CountProvider
InsideCountProvider == ProvidersOf(CountContext, ancestors) # {}

\* C30: inside a CountProvider the display and the button share one count: it
\* starts at 0, and after n clicks on Counter's button, each setCount(c => c + 1),
\* useCount returns n to every consumer: CountDisplay rendering now gets n,
\* the last CountDisplay render got n, and Counter's click handler got the
\* count of before its click and the provider's setCount.
C30_SharedCountIsClicks ==
    InsideCountProvider =>
        /\ ~useCount(ancestors).threw
        /\ useCount(ancestors).value.count = hcall.clicks
        /\ hcall.op = "none" => useCount(ancestors).value.count = 0
        /\ hcall.op = "useCount" =>
              ~hcall.threw /\ hcall.value.count = hcall.clicks
        /\ hcall.op = "increment" =>
              /\ ~hcall.threw
              /\ hcall.value.fn = "setCount"
              /\ hcall.value.count = hcall.clicks - 1

\* C30 witness: after MaxCount clicks CountDisplay rendered and got MaxCount
C30_Witness ==
    /\ InsideCountProvider
    /\ hcall.op = "useCount"
    /\ hcall.clicks = MaxCount
    /\ hcall.value.count = MaxCount

\* the same under two nested CountProviders: the inner one holds the count
C30_WitnessNested ==
    /\ Cardinality(ProvidersOf(CountContext, ancestors)) = 2
    /\ hcall.op = "useCount"
    /\ hcall.clicks = MaxCount
    /\ hcall.value.count = MaxCount

\* a click has just been handled
C30_WitnessClick ==
    /\ InsideCountProvider
    /\ hcall.op = "increment"
    /\ hcall.clicks = 1

====
